---------------------------- MODULE Spec2Model ----------------------------
(***************************************************************************)
(* Model of the wordplay core: the spatial primitives of space.rs          *)
(* (Location, Vector, Distance, Dimension, Line) and the Board / TileSet / *)
(* Placement contracts of component.rs.                                    *)
(*                                                                         *)
(* Two specifications share the module:                                    *)
(*   SpecLine  - Line::between applied to a pair of locations;             *)
(*   Spec      - a Board receiving valid / calculate_points / place calls. *)
(***************************************************************************)
EXTENDS Integers, Sequences, FiniteSets

VARIABLES
    lineArgs,   \* arguments of the Line::between call: <<start, end>>
    line,       \* the Line built from lineArgs (its BTreeSet), or NoLine
    tiles,      \* the board's TileSet: materialized Location -> Tile
    prevTiles,  \* the TileSet as it was when the last call was entered
    lastCall,   \* the Board call that just returned: operation, placement, result
    call,       \* a call of a pure function: its name and arguments, or NoCall
    ret,        \* what that call came to: not returned yet, a value or a panic
    bagStart,   \* the letters the bag was constructed with: letter -> count
    bagLetters, \* BagImpl.letters, the HashMultiSet: letter -> count
    bagCalls    \* the calls made on the bag so far, each with its result

vars == <<lineArgs, line, tiles, prevTiles, lastCall, call, ret,
          bagStart, bagLetters, bagCalls>>

(***************************************************************************)
(* Bounds                                                                  *)
(***************************************************************************)
NegCoord == 1   \* coordinates of Line::between inputs: -NegCoord..MaxCoord
MaxCoord == 2
MaxLen == 2     \* pieces in a placement: 0..MaxLen
MaxValue == 1   \* values of the pieces compared by Piece::eq: 0..MaxValue
MaxExtent == 3  \* width, height, depth given to Dimension::of: 0..MaxExtent
MaxBag == 3     \* letters a bag is constructed with: 0..MaxBag
MaxExtraCalls == 2  \* calls made on a bag beyond the number of its letters
I32Bits == 5    \* bits of the model's i32: it wraps at 2^I32Bits as i32 at 2^32

Coords == (0 - NegCoord)..MaxCoord

(***************************************************************************)
(* The outcome of a call: a value, or a panic that unwinds out of it       *)
(***************************************************************************)
NotReturned == [done |-> FALSE]

Returned(v) == [done |-> TRUE, panic |-> FALSE, value |-> v]

Panicked(message) == [done |-> TRUE, panic |-> TRUE, message |-> message]

IsPanic(v) == "panic" \in DOMAIN v

(***************************************************************************)
(* i32 arithmetic.  An operation whose exact result leaves I32Min..I32Max  *)
(* overflows: built with overflow checks it panics, built without them it  *)
(* wraps.  The operators give the wrapped result; the ...Overflows         *)
(* predicates say when the checked build panics instead.                   *)
(***************************************************************************)
I32Max == 2^(I32Bits - 1) - 1

I32Min == 0 - 2^(I32Bits - 1)

I32Wrap(v) ==
    IF v > I32Max THEN v - 2^I32Bits
    ELSE IF v < I32Min THEN v + 2^I32Bits
    ELSE v

I32Sub(a, b) == I32Wrap(a - b)

I32SubOverflows(a, b) == a - b > I32Max \/ a - b < I32Min

I32AbsOverflows(v) == v = I32Min

(***************************************************************************)
(* space.rs : Location, Vector, Distance                                   *)
(***************************************************************************)
LocationAt(x, y, z) == [x |-> x, y |-> y, z |-> z]

VectorOf(x, y, z) == [x |-> x, y |-> y, z |-> z]

VectorFrom(start, end) ==
    VectorOf(end.x - start.x, end.y - start.y, end.z - start.z)

\* mutant: the vector is taken off instead of added
LocationGoBackwards(self, vector) ==
    LocationAt(self.x - vector.x, self.y - vector.y, self.z - vector.z)

\* mutant: the two-coordinate form is used and z is left as it was
LocationGoFlat(self, vector) ==
    LocationAt(self.x + vector.x, self.y + vector.y, self.z)

LocationGo(self, vector) ==
    LocationAt(self.x + vector.x, self.y + vector.y, self.z + vector.z)

Abs(v) == IF v < 0 THEN I32Wrap(0 - v) ELSE v

DistanceOf(x, y, z) == [x |-> Abs(x), y |-> Abs(y), z |-> Abs(z)]

DistanceOfOverflows(x, y, z) ==
    I32AbsOverflows(x) \/ I32AbsOverflows(y) \/ I32AbsOverflows(z)

DistanceZero == [x |-> 0, y |-> 0, z |-> 0]

DistanceBetween(start, end) ==
    DistanceOf(I32Sub(end.x, start.x), I32Sub(end.y, start.y), I32Sub(end.z, start.z))

DistanceBetweenOverflows(start, end) ==
    \/ I32SubOverflows(end.x, start.x)
    \/ I32SubOverflows(end.y, start.y)
    \/ I32SubOverflows(end.z, start.z)
    \/ DistanceOfOverflows(I32Sub(end.x, start.x), I32Sub(end.y, start.y),
                           I32Sub(end.z, start.z))

DistanceIsWithin(self, distance) ==
    self.x <= distance.x /\ self.y <= distance.y /\ self.z <= distance.z

\* mutant: the differences are compared without abs()
LocationIsWithinSigned(self, distance, location) ==
    /\ I32Sub(self.x, location.x) <= distance.x
    /\ I32Sub(self.y, location.y) <= distance.y
    /\ I32Sub(self.z, location.z) <= distance.z

LocationIsWithin(self, distance, location) ==
    /\ Abs(I32Sub(self.x, location.x)) <= distance.x
    /\ Abs(I32Sub(self.y, location.y)) <= distance.y
    /\ Abs(I32Sub(self.z, location.z)) <= distance.z

\* the && chain stops at the first axis that is too far: an overflow on a
\* later axis is met only if the axes before it were within the distance
LocationIsWithinOverflows(self, distance, location) ==
    LET over(a, b) == I32SubOverflows(a, b) \/ I32AbsOverflows(I32Sub(a, b))
        near(a, b, d) == Abs(I32Sub(a, b)) <= d
    IN  \/ over(self.x, location.x)
        \/ /\ near(self.x, location.x, distance.x)
           /\ \/ over(self.y, location.y)
              \/ /\ near(self.y, location.y, distance.y)
                 /\ over(self.z, location.z)

\* derived Ord of Location: x, then y, then z
LocationLess(a, b) ==
    \/ a.x < b.x
    \/ a.x = b.x /\ a.y < b.y
    \/ a.x = b.x /\ a.y = b.y /\ a.z < b.z

Max2(a, b) == IF a >= b THEN a ELSE b

(***************************************************************************)
(* f32 arithmetic of Line::between.  A finite f32 is held as an integer    *)
(* count of 2^-26: every value the loop produces for |coordinate| < 16 and *)
(* at most 8 steps is such a multiple, so the representation is exact and  *)
(* only the IEEE roundings (24-bit significand, ties to even) lose bits.   *)
(***************************************************************************)
F32One == 67108864

F32Half == 33554432

F32Significand == 16777216

\* 0.0 / 0.0; an integer no finite value of the model takes (all are < 2^30)
F32NaN == 2147483647

I32AsF32(i) == i * F32One

\* nearest multiple of q to v >= 0, ties to the even multiple
RoundTiesEven(v, q) ==
    LET r  == v % q
        lo == v - r
    IN  IF 2 * r < q THEN lo
        ELSE IF 2 * r > q THEN lo + q
        ELSE IF (lo \div q) % 2 = 0 THEN lo ELSE lo + q

RECURSIVE F32Ulp(_, _)
F32Ulp(m, u) == IF m < F32Significand * u THEN u ELSE F32Ulp(m, 2 * u)

\* rounding of an exact result to the nearest f32
F32Round(v) ==
    IF v >= 0 THEN RoundTiesEven(v, F32Ulp(v, 1))
    ELSE -RoundTiesEven(-v, F32Ulp(-v, 1))

F32Add(a, b) ==
    IF a = F32NaN \/ b = F32NaN THEN F32NaN ELSE F32Round(a + b)

RECURSIVE F32DivUlp(_, _, _)
F32DivUlp(p, q, u) == IF 8 * p < 2 * q * u THEN u ELSE F32DivUlp(p, q, 2 * u)

\* (p as f32) / (q as f32) for integers 0 <= p <= q
F32Div(p, q) ==
    IF q = 0 THEN F32NaN
    ELSE IF p = 0 THEN 0
    ELSE LET u == F32DivUlp(p, q, 1)
             n == p * F32One
             d == q * u
             r == n % d
             m == n \div d
         IN  IF 2 * r < d THEN m * u
             ELSE IF 2 * r > d THEN (m + 1) * u
             ELSE IF m % 2 = 0 THEN m * u ELSE (m + 1) * u

\* f32::round (half away from zero) followed by `as i32`
F32RoundAsI32(v) ==
    IF v >= 0 THEN (v + F32Half) \div F32One
    ELSE -((-v + F32Half) \div F32One)

(***************************************************************************)
(* space.rs : Line                                                         *)
(***************************************************************************)
NoLine == {}

RECURSIVE LineLoop(_, _, _, _, _, _, _)
LineLoop(px, py, pz, sx, sy, sz, k) ==
    IF k = 0 THEN {}
    ELSE LET nx == F32Add(px, sx)
             ny == F32Add(py, sy)
             nz == F32Add(pz, sz)
         IN  {LocationAt(F32RoundAsI32(nx), F32RoundAsI32(ny), F32RoundAsI32(nz))}
                 \cup LineLoop(nx, ny, nz, sx, sy, sz, k - 1)

\* mutant: the start is not inserted before the loop
LineBetweenWithoutStart(start, end) ==
    LET d  == DistanceBetween(start, end)
        n  == Max2(d.x, Max2(d.y, d.z))
    IN  LineLoop(I32AsF32(start.x), I32AsF32(start.y), I32AsF32(start.z),
                 F32Div(d.x, n), F32Div(d.y, n), F32Div(d.z, n), n)

LineBetween(start, end) ==
    LET d  == DistanceBetween(start, end)
        n  == Max2(d.x, Max2(d.y, d.z))
        sx == F32Div(d.x, n)
        sy == F32Div(d.y, n)
        sz == F32Div(d.z, n)
    IN  {start} \cup LineLoop(I32AsF32(start.x), I32AsF32(start.y), I32AsF32(start.z),
                              sx, sy, sz, n)

\* BTreeSet::first / BTreeSet::last
LineStart(self) == CHOOSE l \in self : \A m \in self : m = l \/ LocationLess(l, m)

LineEnd(self) == CHOOSE l \in self : \A m \in self : m = l \/ LocationLess(m, l)

LineContains(self, location) == location \in self

(***************************************************************************)
(* space.rs : Dimension                                                    *)
(***************************************************************************)
\* mutant: the depth is not checked
DimensionOfDepthUnchecked(width, height, depth) ==
    IF width < 1 THEN Panicked("Dimension width must be positive")
    ELSE IF height < 1 THEN Panicked("Dimension height must be positive")
    ELSE [width |-> width, height |-> height, depth |-> depth]

\* the Dimension, or the panic the call ends in
DimensionOf(width, height, depth) ==
    IF width < 1 THEN Panicked("Dimension width must be positive")
    ELSE IF height < 1 THEN Panicked("Dimension height must be positive")
    ELSE IF depth < 1 THEN Panicked("Dimension depth must be positive")
    ELSE [width |-> width, height |-> height, depth |-> depth]

DimensionOfWidthHeight(width, height) == DimensionOf(width, height, 1)

DimensionWidth(self) == self.width

DimensionHeight(self) == self.height

DimensionDepth(self) == self.depth

\* mutant: the conversion to u32 never fails
TryIntoU32NeverErr(v) == FALSE

\* i32 -> u32 try_into: an error for a negative value
TryIntoU32IsErr(v) == v < 0

\* mutant: the width is compared with <= instead of <
DimensionContainsInclusive(self, location) ==
    IF TryIntoU32IsErr(location.x) THEN FALSE
    ELSE IF TryIntoU32IsErr(location.y) THEN FALSE
    ELSE IF TryIntoU32IsErr(location.z) THEN FALSE
    ELSE /\ location.x <= self.width
         /\ location.y < self.height
         /\ location.z < self.depth

DimensionContains(self, location) ==
    IF TryIntoU32IsErr(location.x) THEN FALSE
    ELSE IF TryIntoU32IsErr(location.y) THEN FALSE
    ELSE IF TryIntoU32IsErr(location.z) THEN FALSE
    ELSE /\ location.x < self.width
         /\ location.y < self.height
         /\ location.z < self.depth

(***************************************************************************)
(* Orientation: the axis walkers X, Y, Z                                   *)
(***************************************************************************)
Orientations == {"X", "Y", "Z"}

OrientationsXY == <<"X", "Y">>

OrientationGo(self, location, amount) ==
    IF self = "X" THEN LocationGo(location, VectorOf(amount, 0, 0))
    ELSE IF self = "Y" THEN LocationGo(location, VectorOf(0, amount, 0))
    ELSE LocationGo(location, VectorOf(0, 0, amount))

\* mutant: a distance of zero along the own axis is not contained
OrientationContainsOwnAxis(self, distance) ==
    IF self = "X" THEN distance.x # 0 /\ distance.y = 0 /\ distance.z = 0
    ELSE IF self = "Y" THEN distance.x = 0 /\ distance.y # 0 /\ distance.z = 0
    ELSE distance.x = 0 /\ distance.y = 0 /\ distance.z # 0

OrientationContains(self, distance) ==
    IF self = "X" THEN distance.y = 0 /\ distance.z = 0
    ELSE IF self = "Y" THEN distance.x = 0 /\ distance.z = 0
    ELSE distance.x = 0 /\ distance.y = 0

(***************************************************************************)
(* component.rs : Piece, TileAttribute, Tile, TileSet                      *)
(* Option<T> is a sequence of at most one element.                         *)
(***************************************************************************)
None == <<>>

Some(v) == <<v>>

NewPiece(letter, value, wild) == [letter |-> letter, value |-> value, wild |-> wild]

PieceLetter(piece) == piece.letter

PieceValue(piece) == piece.value

\* Letter equality: dyn_eq, the same concrete type and the same value
LetterEq(self, other) == self = other

\* Option<&Box<dyn Letter>> equality
OptionLetterEq(self, other) ==
    IF self = None \/ other = None THEN self = None /\ other = None
    ELSE LetterEq(self[1], other[1])

\* mutant: the letters are compared whether the pieces are wild or not
PieceEqLetterAlways(self, other) ==
    IF self.wild # other.wild THEN FALSE
    ELSE IF PieceLetter(self) = None
         THEN (IF ~(PieceLetter(other) = None) THEN FALSE ELSE TRUE)
    ELSE IF ~OptionLetterEq(PieceLetter(self), PieceLetter(other)) THEN FALSE
    ELSE TRUE

PieceEq(self, other) ==
    IF self.wild # other.wild THEN FALSE
    ELSE IF self.wild THEN TRUE
    ELSE IF PieceLetter(self) = None
         THEN (IF ~(PieceLetter(other) = None) THEN FALSE ELSE TRUE)
    ELSE IF ~OptionLetterEq(PieceLetter(self), PieceLetter(other)) THEN FALSE
    ELSE TRUE

\* a Hasher, as the values written to it so far: two hashes are the same when
\* the same values were written in the same order
NewHasher == <<>>

HasherWrite(state, v) == Append(state, <<v>>)

\* the Hash derived for the piece type of the tests: its fields in order
TestPieceHash(self, state) ==
    HasherWrite(HasherWrite(HasherWrite(state, self.letter), self.value), self.wild)

DynHash(self, state) == TestPieceHash(self, state)

\* Hash for dyn Piece
PieceHash(self, state) == DynHash(self, state)

\* two modifiers whose order of application shows in the score
AttrDouble == [kind |-> "multiply", amount |-> 2]

AttrBonus == [kind |-> "add", amount |-> 1]

ModifyValue(self, value, distance, same_word) ==
    IF distance # DistanceZero THEN value
    ELSE IF self.kind = "multiply" THEN value * self.amount
    ELSE value + self.amount

\* a tile keeps its attributes in a HashSet
NewTile == [piece |-> None, attributes |-> {}]

TileSetPiece(tile, piece) == [tile EXCEPT !.piece = Some(piece)]

TilePiece(tile) == tile.piece

\* mutant: an occupied tile counts 1 whatever its piece is worth
TileBaseValueCounted(tile) ==
    IF tile.piece = None THEN 0 ELSE 1

TileBaseValue(tile) ==
    IF tile.piece = None THEN 0 ELSE PieceValue(tile.piece[1])

TileAddAttribute(tile, attribute) ==
    [tile EXCEPT !.attributes = @ \cup {attribute}]

\* iterating a HashSet: its elements once each, in whichever order the hash
\* table of this instance gives
HashSetIter(set) ==
    {o \in [1..Cardinality(set) -> set] :
         \A i, j \in 1..Cardinality(set) : o[i] = o[j] => i = j}

\* get-or-create: the tile set after tile(location) was called on it
TileSetTile(ts, location) ==
    IF location \in DOMAIN ts THEN ts
    ELSE [l \in DOMAIN ts \cup {location} |->
              IF l = location THEN NewTile ELSE ts[l]]

TileSetOccupiedTiles(ts) == {l \in DOMAIN ts : ts[l].piece # None}

\* the attributes of each location as a Vec, filled by iterating the tile's
\* set: every map the call can return
TileSetAttributes(ts, locations) ==
    {attrs \in [locations -> UNION {HashSetIter(ts[l].attributes) : l \in DOMAIN ts}
                                 \cup {<<>>}] :
         \A l \in locations :
             attrs[l] \in (IF l \in DOMAIN ts THEN HashSetIter(ts[l].attributes)
                                              ELSE {<<>>})}

(***************************************************************************)
(* component.rs : Placement                                                *)
(***************************************************************************)
NewPlacement(start_location, orientation, pieces) ==
    [start_location |-> start_location, orientation |-> orientation,
     pieces |-> pieces]

\* derived PartialEq of Location
LocationEq(self, other) ==
    self.x = other.x /\ self.y = other.y /\ self.z = other.z

\* equality of orientations: the same variant
OrientationEq(self, other) == self = other

\* Vec<Box<dyn Piece>> equality: the same length, and Piece equality at each index
PiecesEq(self, other) ==
    /\ Len(self) = Len(other)
    /\ \A i \in 1..Len(self) : PieceEq(self[i], other[i])

\* mutant: the pieces are compared by their number only
PlacementImplEqByLength(self, other) ==
    /\ LocationEq(self.start_location, other.start_location)
    /\ OrientationEq(self.orientation, other.orientation)
    /\ Len(self.pieces) = Len(other.pieces)

PlacementImplEq(self, other) ==
    /\ LocationEq(self.start_location, other.start_location)
    /\ OrientationEq(self.orientation, other.orientation)
    /\ PiecesEq(self.pieces, other.pieces)

\* the run: start, orientation.go(start, 1), orientation.go(start, 2), ...
PlacementRun(p) ==
    [i \in 1..Len(p.pieces) |-> OrientationGo(p.orientation, p.start_location, i - 1)]

(***************************************************************************)
(* component.rs : Error, PieceFactory, BagImpl                             *)
(* The HashMultiSet of letters is a function letter -> count.              *)
(***************************************************************************)
ErrorNew(kind, message) == [ok |-> FALSE, kind |-> kind, message |-> message]

ResultOk(v) == [ok |-> TRUE, value |-> v]

\* the piece factory of the tests: a piece of value 1, wild when it has no letter
CreatePiece(letter) == NewPiece(letter, 1, letter = None)

RECURSIVE HashMultiSetLen(_, _)
HashMultiSetLen(letters, keys) ==
    IF keys = {} THEN 0
    ELSE LET k == CHOOSE k \in keys : TRUE
         IN  letters[k] + HashMultiSetLen(letters, keys \ {k})

HashMultiSetIsEmpty(letters) == \A k \in DOMAIN letters : letters[k] = 0

\* mutant: every copy of the letter is removed
HashMultiSetRemoveAll(letters, letter) == [letters EXCEPT ![letter] = 0]

\* mutant: nothing is removed
HashMultiSetRemoveNone(letters, letter) == letters

\* remove: one copy less of the letter
HashMultiSetRemove(letters, letter) ==
    [letters EXCEPT ![letter] = IF @ > 0 THEN @ - 1 ELSE 0]

RECURSIVE HashMultiSetExpand(_, _, _)
HashMultiSetExpand(letters, order, i) ==
    IF i > Len(order) THEN <<>>
    ELSE [j \in 1..letters[order[i]] |-> order[i]]
             \o HashMultiSetExpand(letters, order, i + 1)

\* iter(): the letters in the order of the hash table, whichever that is,
\* each as many times in a row as its count
HashMultiSetIter(letters) ==
    LET keys == {k \in DOMAIN letters : letters[k] > 0}
        orders == {o \in [1..Cardinality(keys) -> keys] :
                       \A i, j \in 1..Cardinality(keys) : o[i] = o[j] => i = j}
    IN  {HashMultiSetExpand(letters, o, 1) : o \in orders}

BagIsEmpty(letters) == HashMultiSetIsEmpty(letters)

BagCount(letters) == HashMultiSetLen(letters, DOMAIN letters)

\* mutant: the empty bag is reported as a missing piece
BagRandomPieceNoSuchPiece(letters, letter_index, all_letters) ==
    IF BagIsEmpty(letters)
    THEN [letters |-> letters,
          result |-> ErrorNew("NoSuchPiece", "Cannot retrieve a piece from an empty bag")]
    ELSE LET letter == all_letters[letter_index + 1]
         IN  [letters |-> HashMultiSetRemove(letters, letter),
              result |-> ResultOk(CreatePiece(Some(letter)))]

\* random_piece, given the index the random source picks and the order the
\* multiset is iterated in: the letters it leaves and its result
BagRandomPiece(letters, letter_index, all_letters) ==
    IF BagIsEmpty(letters)
    THEN [letters |-> letters,
          result |-> ErrorNew("NotEnoughPieces",
                              "Cannot retrieve a piece from an empty bag")]
    ELSE LET letter == all_letters[letter_index + 1]
         IN  [letters |-> HashMultiSetRemove(letters, letter),
              result |-> ResultOk(CreatePiece(Some(letter)))]

BagPiece(letters, letter) ==
    [letters |-> letters,
     result |-> ErrorNew("NoSuchPiece", "The letter is not in this bag")]

(***************************************************************************)
(* component.rs : Board                                                    *)
(***************************************************************************)
BoardDimension == DimensionOf(3, 2, 1)

BoardStart == LocationAt(2, 0, 0)

BoardOrientations == OrientationsXY

\* a tile within one step on every axis: adjacent, or the tile itself
Touches(a, b) == LocationIsWithin(a, DistanceOf(1, 1, 1), b)

RuleBounds(p) ==
    LET run == PlacementRun(p)
    IN  \A i \in 1..Len(p.pieces) : DimensionContains(BoardDimension, run[i])

\* mutant: only the first tile of the run is compared with its occupant
RuleOverwriteFirstOnly(ts, p) ==
    \A i \in 1..Len(p.pieces) :
        LET l == PlacementRun(p)[i]
        IN  \/ i > 1
            \/ l \notin TileSetOccupiedTiles(ts)
            \/ PieceLetter(TilePiece(ts[l])[1]) = PieceLetter(p.pieces[i])

RuleOverwrite(ts, p) ==
    LET run == PlacementRun(p)
        occ == TileSetOccupiedTiles(ts)
    IN  \A i \in 1..Len(p.pieces) :
            \/ run[i] \notin occ
            \/ PieceLetter(TilePiece(ts[run[i]])[1]) = PieceLetter(p.pieces[i])

RuleOrientation(p) ==
    \E j \in 1..Len(BoardOrientations) : BoardOrientations[j] = p.orientation

RuleAnchor(p) ==
    LET run == PlacementRun(p)
    IN  \E i \in 1..Len(p.pieces) : run[i] = BoardStart

RuleConnected(ts, p) ==
    LET run == PlacementRun(p)
        occ == TileSetOccupiedTiles(ts)
    IN  \E i \in 1..Len(p.pieces) : \E l \in occ : Touches(run[i], l)

\* the first rule of valid() the placement fails, 0 if it fails none
FirstFailedRule(ts, p) ==
    LET empty == TileSetOccupiedTiles(ts) = {}
    IN  IF ~RuleBounds(p) THEN 1
        ELSE IF ~RuleOverwrite(ts, p) THEN 2
        ELSE IF ~RuleOrientation(p) THEN 3
        ELSE IF empty /\ ~RuleAnchor(p) THEN 4
        ELSE IF ~empty /\ ~RuleConnected(ts, p) THEN 5
        ELSE 0

\* mutant: valid() leaves the orientation rule to place()
BoardValidLax(ts, p) == FirstFailedRule(ts, p) \in {0, 3}

BoardValid(ts, p) == FirstFailedRule(ts, p) = 0

RECURSIVE ApplyAttributes(_, _, _)
ApplyAttributes(attributes, value, k) ==
    IF k > Len(attributes) THEN value
    ELSE ApplyAttributes(attributes,
                         ModifyValue(attributes[k], value, DistanceZero, TRUE), k + 1)

RECURSIVE SumPoints(_, _, _)
SumPoints(attrs, p, i) ==
    IF i > Len(p.pieces) THEN 0
    ELSE LET run   == PlacementRun(p)
             base  == TileBaseValue(TileSetPiece(NewTile, p.pieces[i]))
         IN  ApplyAttributes(attrs[run[i]], base, 1) + SumPoints(attrs, p, i + 1)

\* every score calculate_points(p) can return on tile set ts: one for each
\* way the attribute sets of the run can be iterated
BoardCalculatePoints(ts, p) ==
    LET run == PlacementRun(p)
    IN  {SumPoints(attrs, p, 1) :
             attrs \in TileSetAttributes(ts, {run[i] : i \in 1..Len(p.pieces)})}

RECURSIVE SetPieces(_, _, _)
SetPieces(ts, p, i) ==
    IF i > Len(p.pieces) THEN ts
    ELSE LET l  == PlacementRun(p)[i]
             t1 == TileSetTile(ts, l)
         IN  SetPieces([t1 EXCEPT ![l] = TileSetPiece(t1[l], p.pieces[i])], p, i + 1)

RECURSIVE MaterializeRun(_, _, _)
MaterializeRun(ts, p, i) ==
    IF i > Len(p.pieces) THEN ts
    ELSE MaterializeRun(TileSetTile(ts, PlacementRun(p)[i]), p, i + 1)

\* mutant: the query looks its tiles up with the get-or-create
TileSetAfterQueryMaterialized(ts, p) == MaterializeRun(ts, p, 1)

\* Board::valid and Board::calculate_points borrow the board as &self and
\* reach its tiles through tiles() -> &dyn TileSet, while TileSet::tile, the
\* get-or-create, needs &mut self: the tile set they leave is the one they got
TileSetAfterQuery(ts, p) == ts

Ok(v) == [ok |-> TRUE, value |-> v]

Err(kind, rule) == [ok |-> FALSE, kind |-> kind, rule |-> rule]

\* mutant: the pieces are written before the rules past the bounds are checked
BoardPlaceHalfApplied(ts, p) ==
    LET rule   == FirstFailedRule(ts, p)
        placed == SetPieces(ts, p, 1)
    IN  IF rule = 1
        THEN {[tiles |-> ts, result |-> Err("InvalidPlacement", rule)]}
        ELSE IF rule # 0
        THEN {[tiles |-> placed, result |-> Err("InvalidPlacement", rule)]}
        ELSE {[tiles |-> placed, result |-> Ok(points)] :
                  points \in BoardCalculatePoints(placed, p)}

\* the tile set and the result of place(p) on tile set ts: every outcome
BoardPlace(ts, p) ==
    LET rule == FirstFailedRule(ts, p)
    IN  IF rule # 0
        THEN {[tiles |-> ts, result |-> Err("InvalidPlacement", rule)]}
        ELSE LET placed == SetPieces(ts, p, 1)
             IN  {[tiles |-> placed, result |-> Ok(points)] :
                      points \in BoardCalculatePoints(placed, p)}

(***************************************************************************)
(* Specification of Line::between                                          *)
(***************************************************************************)
LineLocations == {LocationAt(x, y, z) : x \in Coords, y \in Coords, z \in Coords}

NoArgs == <<>>

EmptyTileSet == [l \in {} |-> NewTile]

NoCall == [op |-> "none"]

BoardIdle ==
    /\ tiles = EmptyTileSet
    /\ prevTiles = EmptyTileSet
    /\ lastCall = NoCall

NoPureCall ==
    /\ call = NoCall
    /\ ret = NotReturned

NoBag ==
    /\ bagStart = <<>>
    /\ bagLetters = <<>>
    /\ bagCalls = <<>>

InitLine ==
    /\ lineArgs \in LineLocations \X LineLocations
    /\ line = NoLine
    /\ BoardIdle
    /\ NoBag
    /\ NoPureCall

LineBetweenCall ==
    /\ line = NoLine
    /\ line' = LineBetween(lineArgs[1], lineArgs[2])
    /\ UNCHANGED <<lineArgs, tiles, prevTiles, lastCall, call, ret, bagStart, bagLetters, bagCalls>>

NextLine == LineBetweenCall

SpecLine == InitLine /\ [][NextLine]_vars

(***************************************************************************)
(* Specification of a Board: a caller makes one call at a time, looks at   *)
(* its result and goes on.                                                 *)
(***************************************************************************)
PieceA == NewPiece(Some("A"), 1, FALSE)

PieceB == NewPiece(Some("B"), 2, FALSE)

Pieces == {PieceA, PieceB}

PieceSeqs == UNION {[1..n -> Pieces] : n \in 0..MaxLen}

PlacementStarts ==
    {LocationAt(x, y, 0) : x \in -1..(BoardDimension.width - 1),
                           y \in 0..(BoardDimension.height - 1)}

Placements ==
    {NewPlacement(l, o, ps) : l \in PlacementStarts, o \in Orientations, ps \in PieceSeqs}

\* tile sets a board is constructed with: bare, or with attributes attached
BareTileSet == EmptyTileSet

\* the add_attribute calls that build the other, in the order they are made
BonusAttachments ==
    <<[location |-> BoardStart, attribute |-> AttrDouble],
      [location |-> LocationAt(1, 1, 0), attribute |-> AttrBonus],
      [location |-> LocationAt(1, 1, 0), attribute |-> AttrDouble]>>

RECURSIVE AttachAll(_, _, _)
AttachAll(ts, attachments, i) ==
    IF i > Len(attachments) THEN ts
    ELSE LET a  == attachments[i]
             t1 == TileSetTile(ts, a.location)
         IN  AttachAll([t1 EXCEPT ![a.location] = TileAddAttribute(@, a.attribute)],
                       attachments, i + 1)

BonusTileSet == AttachAll(EmptyTileSet, BonusAttachments, 1)

Init ==
    /\ tiles \in {BareTileSet, BonusTileSet}
    /\ prevTiles = tiles
    /\ lastCall = NoCall
    /\ lineArgs = NoArgs
    /\ line = NoLine
    /\ NoPureCall
    /\ NoBag

\* valid and calculate_points take &self: the record keeps the result only
Valid ==
    /\ lastCall = NoCall
    /\ \E p \in Placements :
           /\ lastCall' = [op |-> "valid", result |-> BoardValid(tiles, p)]
           /\ tiles' = TileSetAfterQuery(tiles, p)
    /\ prevTiles' = tiles
    /\ UNCHANGED <<lineArgs, line, call, ret, bagStart, bagLetters, bagCalls>>

CalculatePoints ==
    /\ lastCall = NoCall
    /\ \E p \in Placements :
       \E points \in BoardCalculatePoints(tiles, p) :
           /\ lastCall' = [op |-> "calculate_points", result |-> points]
           /\ tiles' = TileSetAfterQuery(tiles, p)
    /\ prevTiles' = tiles
    /\ UNCHANGED <<lineArgs, line, call, ret, bagStart, bagLetters, bagCalls>>

Place ==
    /\ lastCall = NoCall
    /\ \E p \in Placements :
       \E r \in BoardPlace(tiles, p) :
           /\ tiles' = r.tiles
           /\ lastCall' = [op |-> "place", placement |-> p, result |-> r.result]
    /\ prevTiles' = tiles
    /\ UNCHANGED <<lineArgs, line, call, ret, bagStart, bagLetters, bagCalls>>

\* the caller has taken the result; the board is ready for the next call
Return ==
    /\ lastCall # NoCall
    /\ lastCall' = NoCall
    /\ prevTiles' = tiles
    /\ UNCHANGED <<tiles, lineArgs, line, call, ret, bagStart, bagLetters, bagCalls>>

Next ==
    \/ Valid
    \/ CalculatePoints
    \/ Place
    \/ Return

Spec == Init /\ [][Next]_vars

(***************************************************************************)
(* Specification of Piece equality: one call of eq on a pair of pieces     *)
(***************************************************************************)
Letters == {None, Some("A"), Some("B")}

EqPieces ==
    {NewPiece(l, v, w) : l \in Letters, v \in 0..MaxValue, w \in BOOLEAN}

InitPieceEq ==
    /\ call \in {[op |-> "Piece::eq", self |-> a, other |-> b] : a, b \in EqPieces}
    /\ ret = NotReturned
    /\ lineArgs = NoArgs
    /\ line = NoLine
    /\ BoardIdle
    /\ NoBag

PieceEqCall ==
    /\ call.op = "Piece::eq"
    /\ ~ret.done
    /\ ret' = Returned(PieceEq(call.self, call.other))
    /\ UNCHANGED <<call, lineArgs, line, tiles, prevTiles, lastCall,
                 bagStart, bagLetters, bagCalls>>

NextPieceEq == PieceEqCall

SpecPieceEq == InitPieceEq /\ [][NextPieceEq]_vars

(***************************************************************************)
(* Specification of Piece hashing: two pieces are compared and each is     *)
(* hashed into a new hasher.                                               *)
(***************************************************************************)
InitPieceHash ==
    /\ call \in {[op |-> "Piece::hash", self |-> a, other |-> b] : a, b \in EqPieces}
    /\ ret = NotReturned
    /\ lineArgs = NoArgs
    /\ line = NoLine
    /\ BoardIdle
    /\ NoBag

PieceHashCall ==
    /\ call.op = "Piece::hash"
    /\ ~ret.done
    /\ ret' = Returned([eq |-> PieceEq(call.self, call.other),
                        self_hash |-> PieceHash(call.self, NewHasher),
                        other_hash |-> PieceHash(call.other, NewHasher)])
    /\ UNCHANGED <<call, lineArgs, line, tiles, prevTiles, lastCall,
                 bagStart, bagLetters, bagCalls>>

NextPieceHash == PieceHashCall

SpecPieceHash == InitPieceHash /\ [][NextPieceHash]_vars

(***************************************************************************)
(* Specification of PlacementImpl equality: one call of eq on a pair       *)
(***************************************************************************)
EqPlacementPieces ==
    {NewPiece(Some("A"), 0, FALSE), NewPiece(Some("A"), 1, FALSE),
     NewPiece(Some("B"), 1, FALSE)}

EqPlacements ==
    {NewPlacement(l, o, ps) :
         l \in {LocationAt(1, 1, 1), LocationAt(1, 1, 2)},
         o \in Orientations,
         ps \in UNION {[1..n -> EqPlacementPieces] : n \in 0..MaxLen}}

InitPlacementEq ==
    /\ call \in {[op |-> "PlacementImpl::eq", self |-> a, other |-> b] :
                     a, b \in EqPlacements}
    /\ ret = NotReturned
    /\ lineArgs = NoArgs
    /\ line = NoLine
    /\ BoardIdle
    /\ NoBag

PlacementImplEqCall ==
    /\ call.op = "PlacementImpl::eq"
    /\ ~ret.done
    /\ ret' = Returned(PlacementImplEq(call.self, call.other))
    /\ UNCHANGED <<call, lineArgs, line, tiles, prevTiles, lastCall,
                 bagStart, bagLetters, bagCalls>>

NextPlacementEq == PlacementImplEqCall

SpecPlacementEq == InitPlacementEq /\ [][NextPlacementEq]_vars

(***************************************************************************)
(* Specification of Dimension: one call of of or of contains               *)
(***************************************************************************)
DimensionOfCalls ==
    {[op |-> "Dimension::of(w, h, d)", width |-> w, height |-> h, depth |-> d] :
         w \in 0..MaxExtent, h \in 0..MaxExtent, d \in 0..MaxExtent}
    \cup {[op |-> "Dimension::of(w, h)", width |-> w, height |-> h] :
              w \in 0..MaxExtent, h \in 0..MaxExtent}

DimensionContainsCalls ==
    {[op |-> "Dimension::contains",
      self |-> DimensionOf(w, h, d), location |-> LocationAt(x, y, z)] :
         w \in 1..MaxExtent, h \in 1..MaxExtent, d \in 1..MaxExtent,
         x \in -1..MaxExtent, y \in -1..MaxExtent, z \in -1..MaxExtent}

InitDimension ==
    /\ call \in DimensionOfCalls \cup DimensionContainsCalls
    /\ ret = NotReturned
    /\ lineArgs = NoArgs
    /\ line = NoLine
    /\ BoardIdle
    /\ NoBag

DimensionOfCall ==
    /\ call.op = "Dimension::of(w, h, d)"
    /\ ~ret.done
    /\ LET r == DimensionOf(call.width, call.height, call.depth)
       IN  ret' = IF IsPanic(r) THEN r ELSE Returned(r)
    /\ UNCHANGED <<call, lineArgs, line, tiles, prevTiles, lastCall,
                 bagStart, bagLetters, bagCalls>>

DimensionOfWidthHeightCall ==
    /\ call.op = "Dimension::of(w, h)"
    /\ ~ret.done
    /\ LET r == DimensionOfWidthHeight(call.width, call.height)
       IN  ret' = IF IsPanic(r) THEN r ELSE Returned(r)
    /\ UNCHANGED <<call, lineArgs, line, tiles, prevTiles, lastCall,
                 bagStart, bagLetters, bagCalls>>

DimensionContainsCall ==
    /\ call.op = "Dimension::contains"
    /\ ~ret.done
    /\ ret' = Returned(DimensionContains(call.self, call.location))
    /\ UNCHANGED <<call, lineArgs, line, tiles, prevTiles, lastCall,
                 bagStart, bagLetters, bagCalls>>

NextDimension ==
    \/ DimensionOfCall
    \/ DimensionOfWidthHeightCall
    \/ DimensionContainsCall

SpecDimension == InitDimension /\ [][NextDimension]_vars

(***************************************************************************)
(* Specification of Distance: one call of of or of between, over i32       *)
(* values at both ends of the range and around zero.  A call that          *)
(* overflows panics or returns the wrapped result, as the build decides.   *)
(***************************************************************************)
I32Samples == {I32Min, I32Min + 1, -1, 0, 1, I32Max - 1, I32Max}

I32Corners == {I32Min, -1, 0, 1, I32Max}

CornerLocations ==
    {LocationAt(x, y, z) : x \in I32Corners, y \in I32Corners, z \in I32Corners}

\* what a call leaves: its value, or a panic when an operation overflowed
Outcomes(overflows, message, value) ==
    IF overflows THEN {Panicked(message), Returned(value)} ELSE {Returned(value)}

InitDistance ==
    /\ call \in {[op |-> "Distance::of", x |-> x, y |-> y, z |-> z] :
                     x \in I32Samples, y \in I32Samples, z \in I32Samples}
                \cup {[op |-> "Distance::between", start |-> a, end |-> b] :
                          a \in CornerLocations, b \in CornerLocations}
    /\ ret = NotReturned
    /\ lineArgs = NoArgs
    /\ line = NoLine
    /\ BoardIdle
    /\ NoBag

DistanceOfCall ==
    /\ call.op = "Distance::of"
    /\ ~ret.done
    /\ ret' \in Outcomes(DistanceOfOverflows(call.x, call.y, call.z),
                         "attempt to negate with overflow",
                         DistanceOf(call.x, call.y, call.z))
    /\ UNCHANGED <<call, lineArgs, line, tiles, prevTiles, lastCall,
                 bagStart, bagLetters, bagCalls>>

DistanceBetweenCall ==
    /\ call.op = "Distance::between"
    /\ ~ret.done
    /\ ret' \in Outcomes(DistanceBetweenOverflows(call.start, call.end),
                         "attempt to subtract with overflow",
                         DistanceBetween(call.start, call.end))
    /\ UNCHANGED <<call, lineArgs, line, tiles, prevTiles, lastCall,
                 bagStart, bagLetters, bagCalls>>

NextDistance ==
    \/ DistanceOfCall
    \/ DistanceBetweenCall

SpecDistance == InitDistance /\ [][NextDistance]_vars

(***************************************************************************)
(* Specification of Location::is_within: one call                          *)
(***************************************************************************)
IsWithinLocations ==
    {LocationAt(x, y, z) : x \in {I32Min, -1, 0, I32Max},
                           y \in {I32Min, -1, 0, I32Max},
                           z \in {I32Min, -1, 0, I32Max}}

IsWithinOthers ==
    {LocationAt(x, y, z) : x \in {-1, 0, I32Max}, y \in {-1, 0, I32Max},
                           z \in {-1, 0, I32Max}}

IsWithinDistances ==
    {DistanceOf(x, y, z) : x \in {0, -1, I32Max}, y \in {0, -1, I32Max},
                           z \in {0, -1, I32Max}}

InitIsWithin ==
    /\ call \in {[op |-> "Location::is_within", self |-> a, distance |-> d,
                   location |-> b] :
                     a \in IsWithinLocations, d \in IsWithinDistances,
                     b \in IsWithinOthers}
    /\ ret = NotReturned
    /\ lineArgs = NoArgs
    /\ line = NoLine
    /\ BoardIdle
    /\ NoBag

LocationIsWithinCall ==
    /\ call.op = "Location::is_within"
    /\ ~ret.done
    /\ ret' \in Outcomes(LocationIsWithinOverflows(call.self, call.distance,
                                                   call.location),
                         "attempt to subtract with overflow",
                         LocationIsWithin(call.self, call.distance, call.location))
    /\ UNCHANGED <<call, lineArgs, line, tiles, prevTiles, lastCall,
                 bagStart, bagLetters, bagCalls>>

NextIsWithin == LocationIsWithinCall

SpecIsWithin == InitIsWithin /\ [][NextIsWithin]_vars

(***************************************************************************)
(* Specification of Orientation: one call of go or of contains             *)
(***************************************************************************)
InitOrientation ==
    /\ call \in {[op |-> "Orientation::go", self |-> o, location |-> l,
                   amount |-> n] :
                     o \in Orientations, l \in LineLocations, n \in Coords}
                \cup {[op |-> "Orientation::contains", self |-> o,
                       distance |-> DistanceOf(x, y, z)] :
                          o \in Orientations, x \in Coords, y \in Coords,
                          z \in Coords}
    /\ ret = NotReturned
    /\ lineArgs = NoArgs
    /\ line = NoLine
    /\ BoardIdle
    /\ NoBag

OrientationGoCall ==
    /\ call.op = "Orientation::go"
    /\ ~ret.done
    /\ ret' = Returned(OrientationGo(call.self, call.location, call.amount))
    /\ UNCHANGED <<call, lineArgs, line, tiles, prevTiles, lastCall,
                 bagStart, bagLetters, bagCalls>>

OrientationContainsCall ==
    /\ call.op = "Orientation::contains"
    /\ ~ret.done
    /\ ret' = Returned(OrientationContains(call.self, call.distance))
    /\ UNCHANGED <<call, lineArgs, line, tiles, prevTiles, lastCall,
                 bagStart, bagLetters, bagCalls>>

NextOrientation ==
    \/ OrientationGoCall
    \/ OrientationContainsCall

SpecOrientation == InitOrientation /\ [][NextOrientation]_vars

(***************************************************************************)
(* Specification of a BagImpl: constructed with some letters, then asked   *)
(* for pieces one call at a time.                                          *)
(***************************************************************************)
BagLetterSet == {"A", "B"}

BagsOfLetters ==
    {b \in [BagLetterSet -> 0..MaxBag] : HashMultiSetLen(b, BagLetterSet) <= MaxBag}

InitBag ==
    /\ bagStart \in BagsOfLetters
    /\ bagLetters = bagStart
    /\ bagCalls = <<>>
    /\ lineArgs = NoArgs
    /\ line = NoLine
    /\ BoardIdle
    /\ NoPureCall

MoreBagCalls == Len(bagCalls) < BagCount(bagStart) + MaxExtraCalls

RandomPiece ==
    /\ MoreBagCalls
    /\ \E all_letters \in HashMultiSetIter(bagLetters) :
       \E letter_index \in 0..(IF BagIsEmpty(bagLetters) THEN 0
                                ELSE BagCount(bagLetters) - 1) :
           LET r == BagRandomPiece(bagLetters, letter_index, all_letters)
           IN  /\ bagLetters' = r.letters
               /\ bagCalls' = Append(bagCalls, [op |-> "random_piece",
                                                before |-> bagLetters,
                                                result |-> r.result])
    /\ UNCHANGED <<bagStart, lineArgs, line, tiles, prevTiles, lastCall, call, ret>>

Piece ==
    /\ MoreBagCalls
    /\ \E letter \in BagLetterSet :
           LET r == BagPiece(bagLetters, letter)
           IN  /\ bagLetters' = r.letters
               /\ bagCalls' = Append(bagCalls, [op |-> "piece",
                                                letter |-> letter,
                                                before |-> bagLetters,
                                                result |-> r.result])
    /\ UNCHANGED <<bagStart, lineArgs, line, tiles, prevTiles, lastCall, call, ret>>

NextBag ==
    \/ RandomPiece
    \/ Piece

SpecBag == InitBag /\ [][NextBag]_vars

(***************************************************************************)
(* Properties.  The notions below restate the geometry in plain            *)
(* arithmetic, independently of the operators of the model.                *)
(***************************************************************************)
Placed == lastCall.op = "place"

Accepted == Placed /\ lastCall.result.ok

Rejected == Placed /\ ~lastCall.result.ok

RejectedAsInvalid == Rejected /\ lastCall.result.kind = "InvalidPlacement"

\* the i-th tile location of the run of placement p
RunCell(p, i) ==
    [x |-> p.start_location.x + (IF p.orientation = "X" THEN i - 1 ELSE 0),
     y |-> p.start_location.y + (IF p.orientation = "Y" THEN i - 1 ELSE 0),
     z |-> p.start_location.z + (IF p.orientation = "Z" THEN i - 1 ELSE 0)]

RunCells(p) == {RunCell(p, i) : i \in 1..Len(p.pieces)}

Occupied(ts) == {l \in DOMAIN ts : ts[l].piece # <<>>}

LetterOn(ts, l) == ts[l].piece[1].letter

InBoard(l) ==
    /\ 0 <= l.x /\ l.x < BoardDimension.width
    /\ 0 <= l.y /\ l.y < BoardDimension.height
    /\ 0 <= l.z /\ l.z < BoardDimension.depth

\* the same tile or one next to it, diagonals included
Near(a, b) ==
    /\ a.x - b.x \in -1..1
    /\ a.y - b.y \in -1..1
    /\ a.z - b.z \in -1..1

RECURSIVE Group(_, _)
Group(seen, all) ==
    LET more == seen \cup {l \in all : \E m \in seen : Near(l, m)}
    IN  IF more = seen THEN seen ELSE Group(more, all)

\* some tile of the run holds a piece of another letter than the run's piece
Mismatch(ts, p) ==
    \E i \in 1..Len(p.pieces) :
        RunCell(p, i) \in Occupied(ts) /\ LetterOn(ts, RunCell(p, i)) # p.pieces[i].letter

\* some tile of the run holds a piece of the same letter as the run's piece
Overlap(ts, p) ==
    \E i \in 1..Len(p.pieces) :
        RunCell(p, i) \in Occupied(ts) /\ LetterOn(ts, RunCell(p, i)) = p.pieces[i].letter

Allowed(p) == p.orientation \in {"X", "Y"}

(* C1: place on a placement that is not valid fails with InvalidPlacement,
   and a place that fails leaves every tile of the board as it was. *)
C1_RejectedPlaceLeavesBoard ==
    /\ (Placed /\ ~BoardValid(prevTiles, lastCall.placement)) => RejectedAsInvalid
    /\ Rejected => tiles = prevTiles

\* a two-piece placement rejected for its second tile while its first was free
C1_Witness ==
    /\ Rejected
    /\ lastCall.result.rule = 2
    /\ Len(lastCall.placement.pieces) = 2
    /\ RunCell(lastCall.placement, 1) \notin Occupied(prevTiles)
    /\ tiles = prevTiles

(* C2: place fails with InvalidPlacement exactly when valid is false in the
   same state and succeeds when it is true; valid returns a boolean, never
   an error. *)
C2_PlaceAgreesWithValid ==
    /\ Placed => (Accepted <=> BoardValid(prevTiles, lastCall.placement))
    /\ Rejected => lastCall.result.kind = "InvalidPlacement"
    /\ lastCall.op = "valid" => lastCall.result \in BOOLEAN

\* a placement accepted on a board that already holds pieces
C2_Witness ==
    /\ Accepted
    /\ Occupied(prevTiles) # {}
    /\ BoardValid(prevTiles, lastCall.placement)

(* C3: while no tile is occupied a placement is valid only if a tile of its
   run is the start location, so once a place has succeeded the start
   location is occupied. *)
C3_OpeningCoversStart ==
    /\ (Placed /\ Occupied(prevTiles) = {} /\ BoardValid(prevTiles, lastCall.placement))
           => BoardStart \in RunCells(lastCall.placement)
    /\ Occupied(tiles) # {} => BoardStart \in Occupied(tiles)

\* the opening move, two pieces long, reaching the start with its second piece
C3_Witness ==
    /\ Accepted
    /\ Occupied(prevTiles) = {}
    /\ Len(lastCall.placement.pieces) = 2
    /\ RunCell(lastCall.placement, 2) = BoardStart
    /\ BoardStart \in Occupied(tiles)

(* C4, as claimed: on a board with an occupied tile, a placement with no run
   tile on or next to an occupied tile is rejected with InvalidPlacement, a
   placement that overlaps an occupied tile of the matching letter is
   accepted, and the occupied tiles form one connected group with start. *)
C4_AsClaimed ==
    /\ (Placed /\ Occupied(prevTiles) # {}
          /\ \A c \in RunCells(lastCall.placement) :
                 \A l \in Occupied(prevTiles) : ~Near(c, l)) => RejectedAsInvalid
    /\ (Placed /\ Occupied(prevTiles) # {} /\ Overlap(prevTiles, lastCall.placement))
           => Accepted
    /\ Occupied(tiles) # {} => Group({BoardStart}, Occupied(tiles)) = Occupied(tiles)

(* C4, amended: as claimed, but the overlapping placement is accepted only
   if it also stays within the dimension, puts no other letter on an
   occupied tile and runs along an orientation of the board. *)
C4_Connectivity ==
    /\ (Placed /\ Occupied(prevTiles) # {}
          /\ \A c \in RunCells(lastCall.placement) :
                 \A l \in Occupied(prevTiles) : ~Near(c, l)) => RejectedAsInvalid
    /\ (Placed /\ Occupied(prevTiles) # {} /\ Overlap(prevTiles, lastCall.placement)
          /\ \A c \in RunCells(lastCall.placement) : InBoard(c)
          /\ ~Mismatch(prevTiles, lastCall.placement)
          /\ Allowed(lastCall.placement)) => Accepted
    /\ Occupied(tiles) # {} => Group({BoardStart}, Occupied(tiles)) = Occupied(tiles)

\* a placement over an occupied tile of its letter and a free tile, accepted
C4_Witness ==
    /\ Accepted
    /\ Occupied(prevTiles) # {}
    /\ Overlap(prevTiles, lastCall.placement)
    /\ Cardinality(Occupied(tiles)) > Cardinality(Occupied(prevTiles))
    /\ Cardinality(Occupied(tiles)) >= 3

(* C5: a placement is invalid if a tile of its run holds a piece of another
   letter; a run tile that is empty or holds the same letter is not what
   makes it invalid; the letter on an occupied tile never changes. *)
C5_NoOverwrite ==
    /\ (Placed /\ Mismatch(prevTiles, lastCall.placement)) => RejectedAsInvalid
    /\ (Rejected /\ ~Mismatch(prevTiles, lastCall.placement)) => lastCall.result.rule # 2
    /\ \A l \in Occupied(prevTiles) :
           l \in Occupied(tiles) /\ LetterOn(tiles, l) = LetterOn(prevTiles, l)

\* an in-board placement along an allowed orientation, touching the occupied
\* tiles, rejected for the other letter it would put on one of them
C5_Witness ==
    /\ Rejected
    /\ Mismatch(prevTiles, lastCall.placement)
    /\ Overlap(prevTiles, lastCall.placement)
    /\ lastCall.result.rule = 2
    /\ \A l \in Occupied(prevTiles) : LetterOn(tiles, l) = LetterOn(prevTiles, l)

(* C6: a placement with a run tile outside the dimension is rejected with
   InvalidPlacement, by the first rule whatever else is wrong with it, and
   every occupied tile lies within the dimension. *)
C6_Bounds ==
    /\ (Placed /\ \E c \in RunCells(lastCall.placement) : ~InBoard(c))
           => (RejectedAsInvalid /\ lastCall.result.rule = 1)
    /\ \A l \in Occupied(tiles) : InBoard(l)

\* a run leaving the board past its depth, along an orientation the board
\* does not allow either, on a board that holds pieces
C6_Witness ==
    /\ RejectedAsInvalid
    /\ lastCall.result.rule = 1
    /\ Occupied(prevTiles) # {}
    /\ lastCall.placement.orientation = "Z"
    /\ \E c \in RunCells(lastCall.placement) : c.z >= BoardDimension.depth
    /\ \E c \in RunCells(lastCall.placement) : InBoard(c)

(* C7: valid and calculate_points leave the board as it was: the same tiles,
   pieces and attributes, no tile materialized. *)
C7_QueriesLeaveBoard ==
    lastCall.op \in {"valid", "calculate_points"} => tiles = prevTiles

\* points calculated for pieces over locations the tile set holds no tile for
C7_Witness ==
    /\ lastCall.op = "calculate_points"
    /\ lastCall.result > 0
    /\ DOMAIN prevTiles = {}
    /\ DOMAIN tiles = {}

(* C8, as claimed: on an empty board without attributes, placing one piece
   at the start location succeeds, the start tile holds the piece and the
   score is the piece's value. *)
C8_AsClaimed ==
    (Placed /\ prevTiles = BareTileSet
       /\ Len(lastCall.placement.pieces) = 1
       /\ lastCall.placement.start_location = BoardStart)
    => /\ Accepted
       /\ BoardStart \in Occupied(tiles)
       /\ tiles[BoardStart].piece = <<lastCall.placement.pieces[1]>>
       /\ lastCall.result.value = lastCall.placement.pieces[1].value

(* C8, amended: as claimed, for a placement along an orientation of the
   board. *)
C8_SinglePieceAtStart ==
    (Placed /\ prevTiles = BareTileSet
       /\ Len(lastCall.placement.pieces) = 1
       /\ lastCall.placement.start_location = BoardStart
       /\ Allowed(lastCall.placement))
    => /\ Accepted
       /\ BoardStart \in Occupied(tiles)
       /\ tiles[BoardStart].piece = <<lastCall.placement.pieces[1]>>
       /\ lastCall.result.value = lastCall.placement.pieces[1].value

\* the piece worth 2 placed alone at the start of the bare board, scoring 2
C8_Witness ==
    /\ Accepted
    /\ prevTiles = BareTileSet
    /\ lastCall.placement.pieces = <<PieceB>>
    /\ lastCall.placement.start_location = BoardStart
    /\ lastCall.result.value = 2

(* C9: the line between A and B contains A and contains B, wherever B lies
   relative to A. *)
C9_LineContainsEnds ==
    line # NoLine =>
        /\ LineContains(line, lineArgs[1])
        /\ LineContains(line, lineArgs[2])

(* C10: start() of the line between start and end is the start passed in and
   end() is the end passed in. *)
C10_LineStartEnd ==
    line # NoLine =>
        /\ LineStart(line) = lineArgs[1]
        /\ LineEnd(line) = lineArgs[2]

\* the size of the difference of two coordinates, and the unit step from a to b
Gap(a, b) == IF a >= b THEN a - b ELSE b - a

Toward(a, b) == IF b > a THEN 1 ELSE IF b < a THEN -1 ELSE 0

\* the largest of the three coordinate differences of locations a and b
Span(a, b) ==
    LET gx == Gap(a.x, b.x)
        gy == Gap(a.y, b.y)
        gz == Gap(a.z, b.z)
    IN  IF gx >= gy /\ gx >= gz THEN gx ELSE IF gy >= gz THEN gy ELSE gz

\* a and b differ along one axis only, or by the same amount on each axis
\* where they differ
Aligned(a, b) ==
    /\ Gap(a.x, b.x) \in {0, Span(a, b)}
    /\ Gap(a.y, b.y) \in {0, Span(a, b)}
    /\ Gap(a.z, b.z) \in {0, Span(a, b)}

\* the locations met stepping one unit at a time from a to b, both included
Steps(a, b) ==
    {[x |-> a.x + k * Toward(a.x, b.x),
      y |-> a.y + k * Toward(a.y, b.y),
      z |-> a.z + k * Toward(a.z, b.z)] : k \in 0..Span(a, b)}

(* C11: for a start and an end on a common axis or exact diagonal, the line
   between them contains the locations stepped through from start to end,
   both included, and no other location. *)
C11_LineContainsExactlySteps ==
    (line # NoLine /\ Aligned(lineArgs[1], lineArgs[2])) =>
        \A l \in LineLocations \cup line :
            LineContains(line, l) <=> l \in Steps(lineArgs[1], lineArgs[2])

(* C12: the line between start and end has n + 1 distinct members, n the
   largest of the three coordinate differences; the line between a location
   and itself has that location as its one member. *)
C12_LineCardinality ==
    line # NoLine =>
        /\ Cardinality(line) = Span(lineArgs[1], lineArgs[2]) + 1
        /\ lineArgs[1] = lineArgs[2] => line = {lineArgs[1]}

\* a line of four members whose three coordinate differences are 1, 2 and 3,
\* two of them towards smaller coordinates
C12_Witness ==
    /\ line # NoLine
    /\ {Gap(lineArgs[1].x, lineArgs[2].x), Gap(lineArgs[1].y, lineArgs[2].y),
        Gap(lineArgs[1].z, lineArgs[2].z)} = {1, 2, 3}
    /\ lineArgs[2].x < lineArgs[1].x
    /\ lineArgs[2].y < lineArgs[1].y
    /\ Cardinality(line) = 4

(* C13: two wildcard pieces are equal whatever their letters and values; a
   wildcard and a non-wildcard are never equal; two non-wildcards are equal
   exactly when both have no letter or both have the same letter, whatever
   their values. *)
C13_PieceEquality ==
    (call.op = "Piece::eq" /\ ret.done) =>
        /\ ~ret.panic
        /\ (call.self.wild /\ call.other.wild) => ret.value = TRUE
        /\ (call.self.wild # call.other.wild) => ret.value = FALSE
        /\ (~call.self.wild /\ ~call.other.wild) =>
               (ret.value <=> call.self.letter = call.other.letter)

\* two wildcards of different letters and values, found equal
C13_Witness ==
    /\ call.op = "Piece::eq"
    /\ ret.done
    /\ call.self.wild /\ call.other.wild
    /\ call.self.letter = <<"A">> /\ call.other.letter = <<"B">>
    /\ call.self.value # call.other.value
    /\ ret.value = TRUE

\* equality of two pieces as C13 states it
SamePiece(a, b) ==
    /\ a.wild = b.wild
    /\ a.wild \/ a.letter = b.letter

(* C14: two PlacementImpl values are equal exactly when their start
   locations are equal, their orientations are equal and their pieces are
   equal index by index over the same length; a difference in one of the
   three alone makes them unequal. *)
C14_PlacementEquality ==
    (call.op = "PlacementImpl::eq" /\ ret.done) =>
        /\ ~ret.panic
        /\ ret.value <=>
               /\ call.self.start_location = call.other.start_location
               /\ call.self.orientation = call.other.orientation
               /\ Len(call.self.pieces) = Len(call.other.pieces)
               /\ \A i \in 1..Len(call.self.pieces) :
                      i <= Len(call.other.pieces)
                          => SamePiece(call.self.pieces[i], call.other.pieces[i])

\* two placements of two pieces that differ in their second piece alone,
\* found unequal
C14_Witness ==
    /\ call.op = "PlacementImpl::eq"
    /\ ret.done
    /\ call.self.start_location = call.other.start_location
    /\ call.self.orientation = call.other.orientation
    /\ Len(call.self.pieces) = 2 /\ Len(call.other.pieces) = 2
    /\ call.self.pieces[1] = call.other.pieces[1]
    /\ call.self.pieces[2].letter # call.other.pieces[2].letter
    /\ ret.value = FALSE

(* C15: Dimension.of panics, and produces no Dimension, when the width, the
   height or the depth is less than 1; otherwise it returns a Dimension with
   the width, height and depth given; with two arguments the depth is 1. *)
C15_DimensionOf ==
    /\ (call.op = "Dimension::of(w, h, d)" /\ ret.done) =>
           IF call.width < 1 \/ call.height < 1 \/ call.depth < 1
           THEN ret.panic
           ELSE /\ ~ret.panic
                /\ DimensionWidth(ret.value) = call.width
                /\ DimensionHeight(ret.value) = call.height
                /\ DimensionDepth(ret.value) = call.depth
    /\ (call.op = "Dimension::of(w, h)" /\ ret.done) =>
           IF call.width < 1 \/ call.height < 1
           THEN ret.panic
           ELSE /\ ~ret.panic
                /\ DimensionWidth(ret.value) = call.width
                /\ DimensionHeight(ret.value) = call.height
                /\ DimensionDepth(ret.value) = 1

\* a depth of 0 with a positive width and height: the call panics
C15_Witness ==
    /\ call.op = "Dimension::of(w, h, d)"
    /\ call.width >= 1 /\ call.height >= 1 /\ call.depth = 0
    /\ ret.done
    /\ ret.panic

(* C16: Dimension.contains is true exactly when 0 <= x < width,
   0 <= y < height and 0 <= z < depth; a negative coordinate gives false. *)
C16_DimensionContains ==
    (call.op = "Dimension::contains" /\ ret.done) =>
        /\ ~ret.panic
        /\ ret.value <=>
               /\ 0 <= call.location.x /\ call.location.x < call.self.width
               /\ 0 <= call.location.y /\ call.location.y < call.self.height
               /\ 0 <= call.location.z /\ call.location.z < call.self.depth

\* a location below 0 on one axis and inside on the other two: not contained
C16_Witness ==
    /\ call.op = "Dimension::contains"
    /\ ret.done
    /\ call.location.y = -1
    /\ call.location.x = call.self.width - 1
    /\ call.location.z = 0
    /\ ret.value = FALSE

(* C17: every Distance that Distance.of or Distance.between produces has its
   three components >= 0 and equal to the absolute value of the signed
   delta, whatever the 32-bit inputs, the least i32 and differences that do
   not fit in an i32 included. *)
C17_DistanceAbsolute ==
    /\ (call.op = "Distance::of" /\ ret.done /\ ~ret.panic) =>
           /\ ret.value.x >= 0 /\ ret.value.x = Gap(call.x, 0)
           /\ ret.value.y >= 0 /\ ret.value.y = Gap(call.y, 0)
           /\ ret.value.z >= 0 /\ ret.value.z = Gap(call.z, 0)
    /\ (call.op = "Distance::between" /\ ret.done /\ ~ret.panic) =>
           /\ ret.value.x >= 0 /\ ret.value.x = Gap(call.end.x, call.start.x)
           /\ ret.value.y >= 0 /\ ret.value.y = Gap(call.end.y, call.start.y)
           /\ ret.value.z >= 0 /\ ret.value.z = Gap(call.end.z, call.start.z)

(* C18: a.is_within(d, b) is true exactly when the difference of a and b is
   at most d on each of the three axes; it is the value of
   Distance.between(a, b).is_within(d) and of b.is_within(d, a). *)
C18_IsWithin ==
    (call.op = "Location::is_within" /\ ret.done) =>
        /\ ~ret.panic
        /\ ret.value <=>
               /\ Gap(call.self.x, call.location.x) <= call.distance.x
               /\ Gap(call.self.y, call.location.y) <= call.distance.y
               /\ Gap(call.self.z, call.location.z) <= call.distance.z
        /\ ret.value = DistanceIsWithin(DistanceBetween(call.self, call.location),
                                        call.distance)
        /\ ret.value = LocationIsWithin(call.location, call.distance, call.self)

\* amount n on the axis of orientation o, 0 on the other axes
Along(o, axis, n) == IF o = axis THEN n ELSE 0

(* C19: orientation.go(L, n) adds the signed amount n to the coordinate of
   the orientation's axis and leaves the other two coordinates of L as they
   were. *)
C19_OrientationGo ==
    (call.op = "Orientation::go" /\ ret.done) =>
        /\ ~ret.panic
        /\ ret.value.x = call.location.x + Along(call.self, "X", call.amount)
        /\ ret.value.y = call.location.y + Along(call.self, "Y", call.amount)
        /\ ret.value.z = call.location.z + Along(call.self, "Z", call.amount)

\* a step back along z from a location off the origin on every axis
C19_Witness ==
    /\ call.op = "Orientation::go"
    /\ ret.done
    /\ call.self = "Z"
    /\ call.amount < 0
    /\ call.location.x > 0 /\ call.location.y > 0
    /\ ret.value.z = call.location.z - 1
    /\ ret.value.x = call.location.x /\ ret.value.y = call.location.y

(* C20: orientation.contains(d) is true exactly when d is zero on the two
   axes other than the orientation's own, whatever d is on the own axis; the
   zero distance is contained by every orientation. *)
C20_OrientationContains ==
    (call.op = "Orientation::contains" /\ ret.done) =>
        /\ ~ret.panic
        /\ ret.value <=>
               /\ call.self # "X" => call.distance.x = 0
               /\ call.self # "Y" => call.distance.y = 0
               /\ call.self # "Z" => call.distance.z = 0

\* the zero distance, contained by the orientation along y
C20_Witness ==
    /\ call.op = "Orientation::contains"
    /\ ret.done
    /\ call.self = "Y"
    /\ call.distance = [x |-> 0, y |-> 0, z |-> 0]
    /\ ret.value = TRUE


(***************************************************************************)
(* Claims about BagImpl, stated over the calls made so far.                *)
(***************************************************************************)
\* the letters in the bag when call i returned
BagAfter(i) == IF i < Len(bagCalls) THEN bagCalls[i + 1].before ELSE bagLetters

RandomPieceCalls == {i \in 1..Len(bagCalls) : bagCalls[i].op = "random_piece"}

PieceCalls == {i \in 1..Len(bagCalls) : bagCalls[i].op = "piece"}

\* C21: random_piece on an empty bag fails with NotEnoughPieces and the bag
\* is still empty afterwards: count() is 0 and is_empty() is true.
C21_RandomPieceEmpty ==
    \A i \in RandomPieceCalls :
        BagIsEmpty(bagCalls[i].before) =>
            /\ ~bagCalls[i].result.ok
            /\ bagCalls[i].result.kind = "NotEnoughPieces"
            /\ BagCount(BagAfter(i)) = 0
            /\ BagIsEmpty(BagAfter(i))

\* a bag that held letters was drawn empty and then asked for one more piece
C21_Witness ==
    \E i \in RandomPieceCalls :
        /\ BagIsEmpty(bagCalls[i].before)
        /\ ~BagIsEmpty(bagStart)
        /\ ~bagCalls[i].result.ok

\* C22: random_piece on a non-empty bag succeeds with a piece whose letter was
\* in the bag; afterwards the count is one lower, that letter's multiplicity
\* is one lower and every other letter's multiplicity is unchanged.
C22_RandomPieceNotEmpty ==
    \A i \in RandomPieceCalls :
        LET before == bagCalls[i].before
            after == BagAfter(i)
            result == bagCalls[i].result
        IN  ~BagIsEmpty(before) =>
                /\ result.ok
                /\ \E l \in BagLetterSet :
                       /\ PieceLetter(result.value) = Some(l)
                       /\ before[l] > 0
                       /\ after[l] = before[l] - 1
                       /\ \A k \in BagLetterSet \ {l} : after[k] = before[k]
                /\ BagCount(after) = BagCount(before) - 1

\* a letter is drawn from a bag holding two copies of it and another letter
C22_Witness ==
    \E i \in RandomPieceCalls :
        \E l \in BagLetterSet :
            /\ bagCalls[i].result.ok
            /\ PieceLetter(bagCalls[i].result.value) = Some(l)
            /\ bagCalls[i].before[l] >= 2
            /\ \E k \in BagLetterSet \ {l} : bagCalls[i].before[k] > 0

\* C23: piece(letter) returns a piece with the letter when the bag holds one,
\* and fails with NoSuchPiece only if the bag holds none.
C23_PieceOfLetter ==
    \A i \in PieceCalls :
        LET c == bagCalls[i]
        IN  /\ c.before[c.letter] > 0 =>
                   /\ c.result.ok
                   /\ PieceLetter(c.result.value) = Some(c.letter)
            /\ ~c.result.ok =>
                   /\ c.result.kind = "NoSuchPiece"
                   /\ c.before[c.letter] = 0

\* how many of the pieces returned so far carry the letter l
Drawn(l) ==
    Cardinality({i \in RandomPieceCalls :
                     /\ bagCalls[i].result.ok
                     /\ PieceLetter(bagCalls[i].result.value) = Some(l)})

\* C25: with only random_piece called on a bag of n letters, exactly the first
\* n calls succeed and the later ones fail with NotEnoughPieces; is_empty() is
\* true exactly when count() is 0; the letters drawn and the letters left make
\* up the initial letters, so the n pieces carry exactly the initial multiset.
C25_DrawUntilEmpty ==
    /\ BagIsEmpty(bagLetters) <=> BagCount(bagLetters) = 0
    /\ PieceCalls = {} =>
           /\ \A i \in RandomPieceCalls :
                  /\ bagCalls[i].result.ok <=> i <= BagCount(bagStart)
                  /\ ~bagCalls[i].result.ok =>
                         bagCalls[i].result.kind = "NotEnoughPieces"
           /\ \A l \in BagLetterSet : Drawn(l) + bagLetters[l] = bagStart[l]
           /\ Len(bagCalls) >= BagCount(bagStart) =>
                  \A l \in BagLetterSet : Drawn(l) = bagStart[l]

\* a bag of both letters, three in all, was drawn empty and asked once more
C25_Witness ==
    /\ PieceCalls = {}
    /\ BagCount(bagStart) = 3
    /\ \A l \in BagLetterSet : bagStart[l] > 0
    /\ Len(bagCalls) = 4
    /\ ~bagCalls[4].result.ok


(***************************************************************************)
(* Claim about the order attributes are applied in.                        *)
(***************************************************************************)
\* the attributes attached to location l of the board, in the order attached
AttachedTo(l) ==
    LET calls == SelectSeq(BonusAttachments, LAMBDA a : a.location = l)
    IN  IF l \in DOMAIN tiles /\ tiles[l].attributes # {}
        THEN [k \in 1..Len(calls) |-> calls[k].attribute]
        ELSE <<>>

\* the score of placement p with each tile's attributes applied as attached
PointsAsAttached(p) ==
    LET run == PlacementRun(p)
    IN  SumPoints([l \in {run[i] : i \in 1..Len(p.pieces)} |-> AttachedTo(l)], p, 1)

\* C24: the score of a placement is the one determined score: each tile of the
\* run starts at its base value, has its attributes applied one after another
\* in the order they were attached, and the results are summed; stated of the
\* score an accepted place returns for the placement it committed.
C24_PointsInAttachmentOrder ==
    (lastCall.op = "place" /\ lastCall.result.ok) =>
        lastCall.result.value = PointsAsAttached(lastCall.placement)


\* C26: hashing is consistent with equality: two pieces that compare equal
\* produce the same hash.
C26_HashConsistentWithEq ==
    (call.op = "Piece::hash" /\ ret.done) =>
        (ret.value.eq => ret.value.self_hash = ret.value.other_hash)

=============================================================================
